---- MODULE Spec2Model ----
(***************************************************************************)
(* A model of SudokuSolver.cpp: the SudokuPuzzle class (partial-mode       *)
(* validity checks, candidate propagation, recursive search) and the       *)
(* stand-alone SudokuValidator program (complete-mode validity).           *)
(***************************************************************************)
EXTENDS Integers, Sequences, FiniteSets, TLC

VARIABLES input, stack, runs, cout, last, puzzle, vlast

vars == <<input, stack, runs, cout, last, puzzle, vlast>>

----------------------------------------------------------------------------
(* Program constants                                                       *)

\* int board[9][9]
Dim == 9
\* a submatrix spans startRowIdx .. startRowIdx + 3 (exclusive)
BoxDim == 3
\* minPossibilities = minRow = minCol = 10: "something invalid"
Invalid == 10
\* int prevNumBlank = 50
InitPrevNumBlank == 50

Idx == 0 .. (Dim - 1)
Digits == 1 .. 9
BoxStarts == {s \in Idx : s % BoxDim = 0}
Cells == Idx \X Idx

\* possibilities[row][col]: nullptr, or a pointer to a set<int>
nullptr == <<>>
PointerTo(S) == <<S>>
Deref(p) == p[1]

Begin_largest(S) == CHOOSE v \in S : \A w \in S : w <= v

\* std::set<int>::begin(): the least element
Begin(S) == CHOOSE v \in S : \A w \in S : v <= w

----------------------------------------------------------------------------
(* The grids of main()                                                     *)

FromRows(rows) == [row \in Idx |-> [col \in Idx |-> rows[row + 1][col + 1]]]

puzzle1 ==
  FromRows(<< <<1, 2, 3, 4, 5, 6, 7, 8, 9>>,
              <<2, 3, 4, 5, 6, 7, 8, 9, 1>>,
              <<3, 4, 5, 6, 7, 8, 9, 1, 2>>,
              <<4, 5, 6, 7, 8, 9, 1, 2, 3>>,
              <<5, 6, 7, 8, 9, 1, 2, 3, 4>>,
              <<6, 7, 8, 9, 1, 2, 3, 4, 5>>,
              <<7, 8, 9, 1, 2, 3, 4, 5, 6>>,
              <<8, 9, 1, 2, 3, 4, 5, 6, 7>>,
              <<9, 1, 2, 3, 4, 5, 6, 7, 8>> >>)

puzzle2 ==
  FromRows(<< <<2, 9, 5, 7, 4, 3, 8, 6, 1>>,
              <<4, 3, 1, 8, 6, 5, 9, 2, 7>>,
              <<8, 7, 6, 1, 9, 2, 5, 4, 3>>,
              <<3, 8, 7, 4, 5, 9, 2, 1, 6>>,
              <<6, 1, 2, 3, 8, 7, 4, 9, 5>>,
              <<5, 4, 9, 2, 1, 6, 7, 3, 8>>,
              <<7, 6, 3, 5, 3, 4, 1, 8, 9>>,
              <<9, 2, 8, 6, 7, 1, 3, 5, 4>>,
              <<1, 5, 4, 9, 3, 8, 6, 7, 2>> >>)

puzzle3 ==
  FromRows(<< <<8, 2, 7, 1, 5, 4, 3, 9, 6>>,
              <<9, 6, 5, 3, 2, 7, 1, 4, 8>>,
              <<3, 4, 1, 6, 8, 9, 7, 5, 2>>,
              <<5, 9, 3, 4, 6, 8, 2, 7, 1>>,
              <<4, 7, 2, 5, 1, 3, 6, 8, 9>>,
              <<6, 1, 8, 9, 7, 2, 4, 3, 5>>,
              <<7, 8, 6, 2, 3, 5, 9, 1, 4>>,
              <<1, 5, 4, 7, 9, 6, 8, 2, 3>>,
              <<2, 3, 9, 8, 4, 1, 5, 6, 7>> >>)

puzzle4 ==
  FromRows(<< <<8, 2, 7, 1, 5, 4, 3, 9, 6>>,
              <<9, 6, 5, 3, 2, 7, 1, 4, 8>>,
              <<3, 4, 1, 6, 8, 9, 7, 5, 2>>,
              <<5, 9, 3, 4, 6, 8, 2, 7, 1>>,
              <<4, 7, 2, 5, 1, 3, 6, 8, 9>>,
              <<6, 1, 8, 9, 7, 2, 4, 3, 5>>,
              <<7, 8, 6, 2, 3, 5, 9, 1, 4>>,
              <<1, 5, 4, 7, 9, 6, 8, 2, 3>>,
              <<2, 3, 9, 8, 4, 1, 5, 7, 6>> >>)

\* A grid read by SudokuPuzzle("hardPuzzle.txt"): 27 clues, one completion,
\* and exactly 50 cells still blank after the first propagation pass.
hardPuzzle ==
  FromRows(<< <<0, 8, 1, 3, 7, 4, 0, 9, 6>>,
              <<3, 6, 7, 0, 0, 0, 0, 0, 0>>,
              <<4, 0, 9, 0, 0, 0, 0, 0, 0>>,
              <<0, 0, 0, 0, 0, 0, 5, 0, 0>>,
              <<6, 5, 0, 9, 0, 0, 0, 0, 4>>,
              <<9, 0, 0, 0, 2, 1, 0, 0, 0>>,
              <<1, 0, 0, 0, 0, 0, 0, 0, 5>>,
              <<8, 0, 0, 0, 0, 6, 7, 0, 0>>,
              <<7, 0, 0, 0, 8, 0, 0, 0, 0>> >>)

\* A grid read from a file whose clues have no duplicate and no completion:
\* propagation stalls and every candidate of the pivot fails.
stuckPuzzle ==
  FromRows(<< <<0, 2, 7, 0, 5, 0, 3, 0, 9>>,
              <<9, 0, 0, 3, 0, 7, 0, 0, 0>>,
              <<0, 4, 1, 0, 0, 9, 7, 0, 2>>,
              <<5, 9, 3, 4, 0, 0, 0, 7, 0>>,
              <<0, 7, 2, 0, 0, 3, 6, 0, 0>>,
              <<6, 1, 8, 9, 7, 0, 0, 0, 5>>,
              <<0, 0, 0, 0, 0, 0, 9, 0, 0>>,
              <<0, 5, 0, 0, 9, 6, 0, 2, 3>>,
              <<0, 3, 0, 0, 0, 0, 5, 6, 7>> >>)

----------------------------------------------------------------------------
(* SudokuPuzzle: unit checks.  Each check returns its result and the       *)
(* messages it writes to cout (none unless the object's verbose is set).   *)

\* The loop of isRowOrColOk: the first repeated non-zero value, 0 if none.
RECURSIVE rowOrColScan(_, _, _, _, _)
rowOrColScan(board, row, which, col, values) ==
  IF col >= Dim THEN 0
  ELSE LET value == IF which = "ROW" THEN board[row][col] ELSE board[col][row]
       IN  IF value # 0
           THEN IF value \in values THEN value
                ELSE rowOrColScan(board, row, which, col + 1, values \cup {value})
           ELSE rowOrColScan(board, row, which, col + 1, values)

\* A cout message: the unit checked, named by its first cell, and the verdict.
Message(unit, startRow, startCol, repeat) ==
  <<unit, startRow, startCol, (IF repeat = 0 THEN "OK" ELSE "repeat"), repeat>>

RowOrColMessage(row, which, repeat) ==
  IF which = "ROW" THEN Message("row", row, 0, repeat) ELSE Message("col", 0, row, repeat)

isRowOrColOk_noSwap(board, row, which, verbose) ==
  LET repeat == rowOrColScan(board, row, "ROW", 0, {})
  IN  [ret |-> repeat = 0,
       out |-> IF verbose THEN <<RowOrColMessage(row, which, repeat)>> ELSE <<>>]

isRowOrColOk_verboseOnly(board, row, which, verbose) ==
  LET repeat == rowOrColScan(board, row, which, 0, {})
  IN  [ret |-> repeat = 0 \/ ~verbose,
       out |-> IF verbose THEN <<RowOrColMessage(row, which, repeat)>> ELSE <<>>]

isRowOrColOk(board, row, which, verbose) ==
  LET repeat == rowOrColScan(board, row, which, 0, {})
  IN  [ret |-> repeat = 0,
       out |-> IF verbose THEN <<RowOrColMessage(row, which, repeat)>> ELSE <<>>]

\* The loops of isSubmatrixOk, cell k of the submatrix in row-major order.
RECURSIVE submatrixScan(_, _, _, _, _)
submatrixScan(board, startRowIdx, startColIdx, k, values) ==
  IF k >= BoxDim * BoxDim THEN 0
  ELSE LET value == board[startRowIdx + (k \div BoxDim)][startColIdx + (k % BoxDim)]
       IN  IF value # 0
           THEN IF value \in values THEN value
                ELSE submatrixScan(board, startRowIdx, startColIdx, k + 1,
                                   values \cup {value})
           ELSE submatrixScan(board, startRowIdx, startColIdx, k + 1, values)

isSubmatrixOk(board, startRowIdx, startColIdx, verbose) ==
  LET repeat == submatrixScan(board, startRowIdx, startColIdx, 0, {})
  IN  [ret |-> repeat = 0,
       out |-> IF verbose
               THEN <<Message("Submatrix", startRowIdx, startColIdx, repeat)>>
               ELSE <<>>]

\* Run the checks of a list in order, stopping at the first that fails.
RECURSIVE firstFailure(_, _, _)
firstFailure(checks, i, out) ==
  IF i > Len(checks) THEN [ret |-> TRUE, out |-> out]
  ELSE IF ~checks[i].ret THEN [ret |-> FALSE, out |-> out \o checks[i].out]
       ELSE firstFailure(checks, i + 1, out \o checks[i].out)

areSubmatricesOk(board, verbose) ==
  firstFailure([k \in 1 .. (Dim) |->
                  isSubmatrixOk(board, BoxDim * ((k - 1) \div BoxDim),
                                BoxDim * ((k - 1) % BoxDim), verbose)],
               1, <<>>)

isSolutionValid_colsFirst(board, verbose) ==
  LET cols == firstFailure([k \in 1 .. Dim |-> isRowOrColOk(board, k - 1, "COL", verbose)],
                           1, <<>>)
      rows == firstFailure([k \in 1 .. Dim |-> isRowOrColOk(board, k - 1, "ROW", verbose)],
                           1, <<>>)
      subs == areSubmatricesOk(board, verbose)
  IN  IF ~cols.ret THEN cols
      ELSE IF ~rows.ret THEN [ret |-> FALSE, out |-> cols.out \o rows.out]
      ELSE [ret |-> subs.ret, out |-> cols.out \o rows.out \o subs.out]

isSolutionValid(board, verbose) ==
  LET rows == firstFailure([k \in 1 .. Dim |-> isRowOrColOk(board, k - 1, "ROW", verbose)],
                           1, <<>>)
      cols == firstFailure([k \in 1 .. Dim |-> isRowOrColOk(board, k - 1, "COL", verbose)],
                           1, <<>>)
      subs == areSubmatricesOk(board, verbose)
  IN  IF ~rows.ret THEN rows
      ELSE IF ~cols.ret THEN [ret |-> FALSE, out |-> rows.out \o cols.out]
      ELSE [ret |-> subs.ret, out |-> rows.out \o cols.out \o subs.out]

\* wouldWork writes the value into the cell, checks the cell's row, column
\* and submatrix in that order, and leaves the cell 0 on every path.
wouldWork_noCol(board, value, atRow, atCol, verbose) ==
  LET b1 == [board EXCEPT ![atRow][atCol] = value]
      b0 == [board EXCEPT ![atRow][atCol] = 0]
      r  == isRowOrColOk(b1, atRow, "ROW", verbose)
      s  == isSubmatrixOk(b1, BoxDim * (atRow \div BoxDim), BoxDim * (atCol \div BoxDim),
                          verbose)
  IN  IF ~r.ret THEN [ret |-> FALSE, board |-> b0, out |-> r.out]
      ELSE [ret |-> s.ret, board |-> b0, out |-> r.out \o s.out]

wouldWork(board, value, atRow, atCol, verbose) ==
  LET b1 == [board EXCEPT ![atRow][atCol] = value]
      b0 == [board EXCEPT ![atRow][atCol] = 0]
      r  == isRowOrColOk(b1, atRow, "ROW", verbose)
      c  == isRowOrColOk(b1, atCol, "COL", verbose)
      s  == isSubmatrixOk(b1, BoxDim * (atRow \div BoxDim), BoxDim * (atCol \div BoxDim),
                          verbose)
  IN  IF ~r.ret THEN [ret |-> FALSE, board |-> b0, out |-> r.out]
      ELSE IF ~c.ret THEN [ret |-> FALSE, board |-> b0, out |-> r.out \o c.out]
      ELSE [ret |-> s.ret, board |-> b0, out |-> r.out \o c.out \o s.out]

----------------------------------------------------------------------------
(* SudokuValidator: the complete-mode checks of the second program.  Its   *)
(* messages are written unconditionally.                                   *)

\* The inner loop of areRowsOk on one row; lowest is the least valid value.
RECURSIVE validatorRowScan(_, _, _, _, _)
validatorRowScan(grid, row, col, values, lowest) ==
  IF col >= Dim THEN [ret |-> TRUE, out |-> <<<<"row", row, 0, "OK", 0>>>>]
  ELSE LET value == grid[row][col]
       IN  IF value < lowest \/ value > 9
           THEN [ret |-> FALSE, out |-> <<<<"row", row, 0, "invalid", value>>>>]
           ELSE IF value \in values
           THEN [ret |-> FALSE, out |-> <<<<"row", row, 0, "repeat", value>>>>]
           ELSE validatorRowScan(grid, row, col + 1, values \cup {value}, lowest)

areRowsOk_zeroOk(grid) ==
  firstFailure([k \in 1 .. Dim |-> validatorRowScan(grid, k - 1, 0, {}, 0)], 1, <<>>)

areRowsOk(grid) ==
  firstFailure([k \in 1 .. Dim |-> validatorRowScan(grid, k - 1, 0, {}, 1)], 1, <<>>)

\* The inner loop of areColumnsOk on one column: no range check.
RECURSIVE validatorColScan(_, _, _, _)
validatorColScan(grid, col, row, values) ==
  IF row >= Dim THEN [ret |-> TRUE, out |-> <<<<"col", 0, col, "OK", 0>>>>]
  ELSE LET value == grid[row][col]
       IN  IF value \in values
           THEN [ret |-> FALSE, out |-> <<<<"col", 0, col, "repeat", value>>>>]
           ELSE validatorColScan(grid, col, row + 1, values \cup {value})

areColumnsOk(grid) ==
  firstFailure([k \in 1 .. Dim |-> validatorColScan(grid, k - 1, 0, {})], 1, <<>>)

\* The loops of the validator's isSubmatrixOk; the stop indices are inclusive.
RECURSIVE validatorSubmatrixScan(_, _, _, _, _, _, _, _)
validatorSubmatrixScan(grid, startRowIdx, stopRowIdx, startColIdx, stopColIdx, row, col, values) ==
  IF row > stopRowIdx
  THEN [ret |-> TRUE, out |-> <<<<"Submatrix", startRowIdx, startColIdx, "OK", 0>>>>]
  ELSE IF col > stopColIdx
  THEN validatorSubmatrixScan(grid, startRowIdx, stopRowIdx, startColIdx, stopColIdx,
                              row + 1, startColIdx, values)
  ELSE LET value == grid[row][col]
       IN  IF value \in values
           THEN [ret |-> FALSE,
                 out |-> <<<<"Submatrix", startRowIdx, startColIdx, "repeat", value>>>>]
           ELSE validatorSubmatrixScan(grid, startRowIdx, stopRowIdx, startColIdx,
                                       stopColIdx, row, col + 1, values \cup {value})

isSubmatrixOk_Validator(grid, startRowIdx, stopRowIdx, startColIdx, stopColIdx) ==
  validatorSubmatrixScan(grid, startRowIdx, stopRowIdx, startColIdx, stopColIdx,
                         startRowIdx, startColIdx, {})

areSubmatricesOk_Validator(grid) ==
  firstFailure([k \in 1 .. Dim |->
                  LET startRow == BoxDim * ((k - 1) \div BoxDim)
                      startCol == BoxDim * ((k - 1) % BoxDim)
                  IN  isSubmatrixOk_Validator(grid, startRow, startRow + 2,
                                              startCol, startCol + 2)],
               1, <<>>)

isSolutionOk(grid) ==
  LET rows == areRowsOk(grid)
      cols == areColumnsOk(grid)
      subs == areSubmatricesOk_Validator(grid)
  IN  IF ~rows.ret THEN rows
      ELSE IF ~cols.ret THEN [ret |-> FALSE, out |-> rows.out \o cols.out]
      ELSE [ret |-> subs.ret, out |-> rows.out \o cols.out \o subs.out]

----------------------------------------------------------------------------
(* SudokuPuzzle: the object, candidate sets and one propagation pass       *)

SudokuPuzzle(potentialSolution) ==
  [board            |-> [row \in Idx |-> [col \in Idx |-> potentialSolution[row][col]]],
   possibilities    |-> [row \in Idx |-> [col \in Idx |-> nullptr]],
   minPossibilities |-> Invalid,
   minRow           |-> Invalid,
   minCol           |-> Invalid,
   verbose          |-> FALSE]

getValue(self, row, col) == self.board[row][col]

setValue_noop(self, row, col, value) == self

setValue(self, row, col, value) == [self EXCEPT !.board[row][col] = value]

setAllPossibilities_everyCell(self) ==
  [self EXCEPT !.possibilities = [row \in Idx |-> [col \in Idx |-> PointerTo(Digits)]]]

setAllPossibilities(self) ==
  [self EXCEPT !.possibilities =
     [row \in Idx |-> [col \in Idx |->
        IF self.board[row][col] = 0 THEN PointerTo(Digits) ELSE nullptr]]]

\* Number of cout messages written by the wouldWork calls on the values of S.
RECURSIVE messages(_, _)
messages(tried, S) ==
  IF S = {} THEN 0
  ELSE LET v == Begin(S) IN Len(tried[v].out) + messages(tried, S \ {v})

trimCell_lastSmallest(st, row, col) ==
  IF st.self.possibilities[row][col] = nullptr THEN st
  ELSE
    LET self   == st.self
        S      == Deref(self.possibilities[row][col])
        tried  == [v \in S |-> wouldWork(self.board, v, row, col, self.verbose)]
        kept   == {v \in S : tried[v].ret}
        board1 == IF S = {} THEN self.board ELSE [self.board EXCEPT ![row][col] = 0]
        said   == IF self.verbose THEN messages(tried, S) + 1 ELSE 0
        size   == Cardinality(kept)
    IN  IF size = 0
        THEN [st EXCEPT !.self.board = board1,
                        !.self.possibilities[row][col] = PointerTo(kept),
                        !.returned = TRUE,
                        !.numBlank = -1,
                        !.nout = @ + said]
        ELSE IF size = 1
        THEN [st EXCEPT !.self.board = [board1 EXCEPT ![row][col] = Begin(kept)],
                        !.self.possibilities[row][col] = nullptr,
                        !.nout = @ + said + (IF self.verbose THEN 1 ELSE 0)]
        ELSE [st EXCEPT !.self.board = board1,
                        !.self.possibilities[row][col] = PointerTo(kept),
                        !.self.minPossibilities =
                            IF size <= self.minPossibilities THEN size ELSE @,
                        !.self.minRow = IF size <= self.minPossibilities THEN row ELSE @,
                        !.self.minCol = IF size <= self.minPossibilities THEN col ELSE @,
                        !.numBlank = @ + 1,
                        !.nout = @ + said]

\* The body of the two loops of trimPossibilities for one cell.  st carries
\* the object, numBlank, whether the method has returned -1, and the number
\* of messages written.
trimCell(st, row, col) ==
  IF st.self.possibilities[row][col] = nullptr THEN st
  ELSE
    LET self   == st.self
        S      == Deref(self.possibilities[row][col])
        tried  == [v \in S |-> wouldWork(self.board, v, row, col, self.verbose)]
        kept   == {v \in S : tried[v].ret}
        board1 == IF S = {} THEN self.board ELSE [self.board EXCEPT ![row][col] = 0]
        said   == IF self.verbose THEN messages(tried, S) + 1 ELSE 0
        size   == Cardinality(kept)
    IN  IF size = 0
        THEN [st EXCEPT !.self.board = board1,
                        !.self.possibilities[row][col] = PointerTo(kept),
                        !.returned = TRUE,
                        !.numBlank = -1,
                        !.nout = @ + said]
        ELSE IF size = 1
        THEN [st EXCEPT !.self.board = [board1 EXCEPT ![row][col] = Begin(kept)],
                        !.self.possibilities[row][col] = nullptr,
                        !.nout = @ + said + (IF self.verbose THEN 1 ELSE 0)]
        ELSE [st EXCEPT !.self.board = board1,
                        !.self.possibilities[row][col] = PointerTo(kept),
                        !.self.minPossibilities =
                            IF size < self.minPossibilities THEN size ELSE @,
                        !.self.minRow = IF size < self.minPossibilities THEN row ELSE @,
                        !.self.minCol = IF size < self.minPossibilities THEN col ELSE @,
                        !.numBlank = @ + 1,
                        !.nout = @ + said]

RECURSIVE trimFrom(_, _)
trimFrom(st, k) ==
  IF k >= Dim * Dim \/ st.returned THEN st
  ELSE trimFrom(trimCell(st, k \div Dim, k % Dim), k + 1)

trimPossibilities(self) ==
  LET st == trimFrom([self     |-> [self EXCEPT !.minPossibilities = Invalid,
                                                !.minRow = Invalid,
                                                !.minCol = Invalid],
                      numBlank |-> 0,
                      returned |-> FALSE,
                      nout     |-> IF self.verbose THEN 1 ELSE 0],
                     0)
  IN  [self     |-> st.self,
       numBlank |-> st.numBlank,
       nout     |-> IF self.verbose /\ ~st.returned THEN st.nout + 1 ELSE st.nout]

----------------------------------------------------------------------------
(* Input grids                                                             *)

\* The grid with every cell left blank that holds a digit of D or lies in a
\* row of R.
Blank(grid, D, R) ==
  [row \in Idx |-> [col \in Idx |->
     IF grid[row][col] \in D \/ row \in R THEN 0 ELSE grid[row][col]]]

\* The grid with one cell overwritten.
Poke(grid, row, col, value) == [grid EXCEPT ![row][col] = value]

DigitMasks == {{}, {1}, {1, 2}, {1, 2, 3}}

SolveInputs ==
  {Blank(g, D, {}) : g \in {puzzle1, puzzle2, puzzle3, puzzle4}, D \in DigitMasks}
    \cup {hardPuzzle, stuckPuzzle}

\* Grids for the unit checks: a grid of main, possibly with the 1s or the
\* first row blank, and one cell overwritten with any value 0..9.
\* The overwritten cell is one of nine: one in each row, column and box.
PokeCells == {cell \in Cells : cell[2] = (BoxDim * cell[1] + cell[1] \div BoxDim) % Dim}

GridInputs ==
  {Poke(g, cell[1], cell[2], v) :
     g \in {Blank(b, m[1], m[2]) :
              b \in {puzzle1, puzzle2, puzzle3, puzzle4},
              m \in {<<{}, {}>>, <<{1}, {}>>, <<{}, {0}>>}},
     cell \in PokeCells,
     v \in 0 .. 9}

\* Number of top-level solve() calls in one behaviour.
MaxRuns == 2

----------------------------------------------------------------------------
(* solve(): one frame per nested invocation; stack[1] is the caller's      *)
(* object, stack[k + 1] the subPuzzle created by invocation k.             *)

\* The number of cells of the board that hold 0.
blankCells(board) == Cardinality({cell \in Cells : board[cell[1]][cell[2]] = 0})

\* blanks is the history of the invocation: the number of blank cells at
\* its entry, then after each pass of its while loop.
Frame(self, pc) ==
  [self         |-> self,
   prevNumBlank |-> InitPrevNumBlank,
   pc           |-> pc,
   it           |-> 0,
   ret          |-> FALSE,
   atCall       |-> self.board,
   blanks       |-> <<blankCells(self.board)>>]

Top == stack[Len(stack)]

Idle == Len(stack) = 1 /\ stack[1].pc \in {"constructed", "returned"}

\* `return value;` in the top frame: the top-level call hands control back
\* to the caller, a nested call to the invocation that created it.
Return(frame, value, said) ==
  /\ cout' = cout + said
  /\ IF Len(stack) = 1
     THEN /\ stack' = <<[frame EXCEPT !.pc = "returned", !.ret = value]>>
          /\ runs' = Append(runs, [verbose |-> frame.self.verbose,
                                   atCall  |-> frame.atCall,
                                   ret     |-> value,
                                   board   |-> frame.self.board,
                                   cout    |-> cout + said])
     ELSE /\ stack' = [stack EXCEPT ![Len(stack)] =
                         [frame EXCEPT !.pc = "returned", !.ret = value]]
          /\ UNCHANGED runs

\* sp.solve(verbose): lines 158-165.
CallSolve(verbose) ==
  /\ Idle
  /\ Len(runs) < MaxRuns
  /\ stack' = <<Frame(setAllPossibilities([stack[1].self EXCEPT !.verbose = verbose]),
                      "loop")>>
  /\ cout' = 0
  /\ UNCHANGED <<input, runs, last, puzzle, vlast>>

\* A new SudokuPuzzle built from the same array, as each block of main does.
Construct ==
  /\ Idle
  /\ runs # <<>>
  /\ Len(runs) < MaxRuns
  /\ stack[1].self # SudokuPuzzle(input)
  /\ stack' = <<Frame(SudokuPuzzle(input), "constructed")>>
  /\ UNCHANGED <<input, runs, cout, last, puzzle, vlast>>

\* What solve does with the value trimPossibilities returned: lines 168-212.
AfterTrim_zeroFails(frame, t) ==
  IF t.numBlank <= 0
  THEN Return([frame EXCEPT !.blanks = Append(@, blankCells(t.self.board)), !.self = t.self], FALSE, t.nout)
  ELSE IF t.numBlank = frame.prevNumBlank
  THEN /\ stack' = [stack EXCEPT ![Len(stack)] =
                      [frame EXCEPT !.blanks = Append(@, blankCells(t.self.board)), !.self = t.self,
                                    !.pc = "search",
                                    !.it = Begin(Deref(
                                       t.self.possibilities[t.self.minRow][t.self.minCol]))]]
       /\ cout' = cout + t.nout + (IF frame.self.verbose THEN 1 ELSE 0)
       /\ UNCHANGED runs
  ELSE /\ stack' = [stack EXCEPT ![Len(stack)] =
                      [frame EXCEPT !.blanks = Append(@, blankCells(t.self.board)), !.self = t.self, !.prevNumBlank = t.numBlank]]
       /\ cout' = cout + t.nout
       /\ UNCHANGED runs

AfterTrim(frame, t) ==
  IF t.numBlank = -1
  THEN Return([frame EXCEPT !.blanks = Append(@, blankCells(t.self.board)), !.self = t.self], FALSE, t.nout)
  ELSE IF t.numBlank = 0
  THEN Return([frame EXCEPT !.blanks = Append(@, blankCells(t.self.board)), !.self = t.self], TRUE, t.nout + 2)
  ELSE IF t.numBlank = frame.prevNumBlank
  THEN /\ stack' = [stack EXCEPT ![Len(stack)] =
                      [frame EXCEPT !.blanks = Append(@, blankCells(t.self.board)), !.self = t.self,
                                    !.pc = "search",
                                    !.it = Begin(Deref(
                                       t.self.possibilities[t.self.minRow][t.self.minCol]))]]
       /\ cout' = cout + t.nout + (IF frame.self.verbose THEN 1 ELSE 0)
       /\ UNCHANGED runs
  ELSE /\ stack' = [stack EXCEPT ![Len(stack)] =
                      [frame EXCEPT !.blanks = Append(@, blankCells(t.self.board)), !.self = t.self, !.prevNumBlank = t.numBlank]]
       /\ cout' = cout + t.nout
       /\ UNCHANGED runs

\* One iteration of the while loop of solve: lines 166-213.
Pass ==
  /\ Top.pc = "loop"
  /\ AfterTrim(Top, trimPossibilities(Top.self))
  /\ UNCHANGED <<input, last, puzzle, vlast>>

\* The body of the for loop up to the recursive call: lines 186-193.  The
\* subPuzzle is built from the current board and solved with verbose off.
Branch_inPlace ==
  /\ Top.pc = "search"
  /\ LET self      == setValue(Top.self, Top.self.minRow, Top.self.minCol, Top.it)
         subPuzzle == SudokuPuzzle(self.board)
     IN  stack' = Append([stack EXCEPT ![Len(stack)].pc = "call",
                                       ![Len(stack)].self = self],
                         Frame(setAllPossibilities([subPuzzle EXCEPT !.verbose = FALSE]),
                               "loop"))
  /\ cout' = cout + (IF Top.self.verbose THEN 1 ELSE 0)
  /\ UNCHANGED <<input, runs, last, puzzle, vlast>>

Branch ==
  /\ Top.pc = "search"
  /\ LET self      == Top.self
         subPuzzle == setValue(SudokuPuzzle(self.board), self.minRow, self.minCol, Top.it)
     IN  stack' = Append([stack EXCEPT ![Len(stack)].pc = "call"],
                         Frame(setAllPossibilities([subPuzzle EXCEPT !.verbose = FALSE]),
                               "loop"))
  /\ cout' = cout + (IF Top.self.verbose THEN 1 ELSE 0)
  /\ UNCHANGED <<input, runs, last, puzzle, vlast>>

\* For all blanks in this puzzle, copy values from sub-puzzle: lines 194-199.
Adopt(self, subPuzzle) ==
  [self EXCEPT !.board =
     [row \in Idx |-> [col \in Idx |->
        IF self.board[row][col] = 0 THEN getValue(subPuzzle, row, col)
        ELSE self.board[row][col]]]]

\* subPuzzle->solve() has returned: lines 193-210.
SubReturn ==
  /\ Len(stack) > 1
  /\ Top.pc = "returned"
  /\ LET sub    == Top
         parent == stack[Len(stack) - 1]
         rest   == {v \in Deref(parent.self.possibilities[parent.self.minRow]
                                                         [parent.self.minCol]) :
                      v > parent.it}
         popped == SubSeq(stack, 1, Len(stack) - 1)
         return(frame, value) ==
           IF Len(popped) = 1
           THEN /\ stack' = <<[frame EXCEPT !.pc = "returned", !.ret = value]>>
                /\ runs' = Append(runs, [verbose |-> frame.self.verbose,
                                         atCall  |-> frame.atCall,
                                         ret     |-> value,
                                         board   |-> frame.self.board,
                                         cout    |-> cout])
           ELSE /\ stack' = [popped EXCEPT ![Len(popped)] =
                               [frame EXCEPT !.pc = "returned", !.ret = value]]
                /\ UNCHANGED runs
     IN  IF sub.ret
         THEN return([parent EXCEPT !.self = Adopt(parent.self, sub.self)], TRUE)
         ELSE IF rest = {}
         THEN return(parent, FALSE)
         ELSE /\ stack' = [popped EXCEPT ![Len(popped)] =
                             [parent EXCEPT !.pc = "search", !.it = Begin(rest)]]
              /\ UNCHANGED runs
  /\ UNCHANGED <<input, cout, last, puzzle, vlast>>

NoCall == [op |-> "none", args |-> <<>>, ret |-> FALSE, out |-> <<>>]

\* sp.isSolutionValid(verbose) on the caller's object.
CallIsSolutionValid(verbose) ==
  /\ Idle
  /\ last.op # "wouldWork"
  /\ LET r == isSolutionValid(stack[1].self.board, verbose)
     IN  /\ last' = [op |-> "isSolutionValid", args |-> <<verbose>>,
                     ret |-> r.ret, out |-> r.out]
         /\ last' # last
  /\ stack' = [stack EXCEPT ![1].self.verbose = verbose]
  /\ UNCHANGED <<input, runs, cout, puzzle, vlast>>

\* wouldWork(value, atRow, atCol) as trimPossibilities calls it: on a blank
\* cell, with a value of 1..9.  Exercised once, on the object as constructed.
CallWouldWork(value, atRow, atCol) ==
  /\ Idle
  /\ last = NoCall
  /\ stack[1].self.board[atRow][atCol] = 0
  /\ LET r == wouldWork(stack[1].self.board, value, atRow, atCol, stack[1].self.verbose)
     IN  /\ last' = [op |-> "wouldWork", args |-> <<value, atRow, atCol>>,
                     ret |-> r.ret, out |-> r.out]
         /\ stack' = [stack EXCEPT ![1].self.board = r.board]
  /\ UNCHANGED <<input, runs, cout, puzzle, vlast>>

Init ==
  /\ input \in SolveInputs
  /\ stack = <<Frame(SudokuPuzzle(input), "constructed")>>
  /\ runs = <<>>
  /\ cout = 0
  /\ last = NoCall
  /\ puzzle = input
  /\ vlast = NoCall

Next ==
  \/ \E verbose \in BOOLEAN : CallSolve(verbose)
  \/ Construct
  \/ Pass
  \/ Branch
  \/ SubReturn
  \/ \E verbose \in BOOLEAN : CallIsSolutionValid(verbose)

Spec == Init /\ [][Next]_vars

\* The unit checks alone, on the wider set of grids.
InitGrid ==
  /\ input \in GridInputs
  /\ stack = <<Frame(SudokuPuzzle(input), "constructed")>>
  /\ runs = <<>>
  /\ cout = 0
  /\ last = NoCall
  /\ puzzle = input
  /\ vlast = NoCall

NextGrid ==
  \/ \E verbose \in BOOLEAN : CallIsSolutionValid(verbose)
  \/ \E value \in Digits, atRow \in Idx, atCol \in Idx : CallWouldWork(value, atRow, atCol)

SpecGrid == InitGrid /\ [][NextGrid]_vars

\* The validator program on an int[9][9] with one cell overwritten by any
\* value of -1..10.
ValidatorInputs ==
  {Poke(g, row, col, v) :
     g \in {puzzle1, puzzle2, puzzle3, puzzle4}, row \in Idx, col \in Idx, v \in -1 .. 10}

RunIsSolutionOk ==
  /\ vlast = NoCall
  /\ LET r == isSolutionOk(puzzle)
     IN  vlast' = [op |-> "isSolutionOk", args |-> <<>>, ret |-> r.ret, out |-> r.out]
  /\ UNCHANGED <<input, stack, runs, cout, last, puzzle>>

InitValidator ==
  /\ puzzle \in ValidatorInputs
  /\ input = puzzle1
  /\ stack = <<Frame(SudokuPuzzle(input), "constructed")>>
  /\ runs = <<>>
  /\ cout = 0
  /\ last = NoCall
  /\ vlast = NoCall

NextValidator == RunIsSolutionOk

SpecValidator == InitValidator /\ [][NextValidator]_vars

----------------------------------------------------------------------------
(* Vocabulary of the properties                                            *)

SameUnit(r1, c1, r2, c2) ==
  /\ <<r1, c1>> # <<r2, c2>>
  /\ \/ r1 = r2
     \/ c1 = c2
     \/ (r1 \div 3 = r2 \div 3 /\ c1 \div 3 = c2 \div 3)

\* No non-zero value occurs twice in a row, a column or a box.
NoDuplicate(grid) ==
  \A r1 \in Idx, c1 \in Idx, r2 \in Idx, c2 \in Idx :
    (SameUnit(r1, c1, r2, c2) /\ grid[r1][c1] # 0) => grid[r1][c1] # grid[r2][c2]

NoBlank(grid) == \A r \in Idx, c \in Idx : grid[r][c] # 0

\* v occurs in no other cell of the row, column and box of (row, col).
Absent(grid, v, row, col) ==
  \A r \in Idx, c \in Idx : SameUnit(row, col, r, c) => grid[r][c] # v

\* The number of valid completions of a duplicate-free grid, counted up to cap
\* by a depth-first enumeration on a blank cell with the fewest fitting digits.
RECURSIVE CountCompletions(_, _), CountOver(_, _, _, _, _)
CountCompletions(grid, cap) ==
  LET sized == {<<Cardinality({v \in Digits : Absent(grid, v, cell[1], cell[2])}), cell>> :
                  cell \in {x \in Cells : grid[x[1]][x[2]] = 0}}
  IN  IF sized = {} THEN 1
      ELSE LET pick == CHOOSE p \in sized : \A q \in sized : p[1] <= q[1]
               row  == pick[2][1]
               col  == pick[2][2]
           IN  CountOver(grid, row, col, {v \in Digits : Absent(grid, v, row, col)}, cap)

CountOver(grid, row, col, S, cap) ==
  IF S = {} \/ cap <= 0 THEN 0
  ELSE LET v == Begin(S)
           n == CountCompletions([grid EXCEPT ![row][col] = v], cap)
       IN  n + CountOver(grid, row, col, S \ {v}, cap - n)

Completions(grid) == IF NoDuplicate(grid) THEN CountCompletions(grid, 2) ELSE 0

----------------------------------------------------------------------------
(* Properties of solve()                                                   *)

\* C1 (as claimed): a duplicate-free grid with exactly one valid completion
\* makes solve() return true with a grid that has no blank and no repeated
\* digit in any row, column or box.
C1_UniquePuzzleSolved ==
  \A i \in DOMAIN runs :
    \/ runs[i].ret /\ NoBlank(runs[i].board) /\ NoDuplicate(runs[i].board)
    \/ Completions(runs[i].atCall) # 1

\* C2 (as claimed): on a grid with no valid completion, clue duplicates
\* included, solve() returns false.
C2_UnsolvableReturnsFalse ==
  \A i \in DOMAIN runs :
    \/ ~runs[i].ret
    \/ Completions(runs[i].atCall) > 0

\* C3: solve() on a full, duplicate-free grid returns true and changes no
\* cell, on the first call and on every later one.
C3_SolvedGridUnchanged ==
  \A i \in DOMAIN runs :
    (NoBlank(runs[i].atCall) /\ NoDuplicate(runs[i].atCall))
      => (runs[i].ret /\ runs[i].board = runs[i].atCall)

C3_Witness ==
  /\ Len(runs) = 2
  /\ NoBlank(runs[1].atCall) /\ NoDuplicate(runs[1].atCall)
  /\ runs[1].ret /\ runs[2].ret
  /\ runs[2].atCall = runs[1].board
  /\ stack[1].pc = "returned"

\* C6: two solve() calls on equal grids return the same boolean and leave
\* the same grid whatever their verbose flags.
C6_VerboseIsObserver ==
  \A i \in DOMAIN runs, j \in DOMAIN runs :
    runs[i].atCall = runs[j].atCall
      => (runs[i].ret = runs[j].ret /\ runs[i].board = runs[j].board)

C6_Witness ==
  /\ Len(runs) = 2
  /\ runs[1].verbose # runs[2].verbose
  /\ runs[1].atCall = runs[2].atCall
  /\ runs[1].cout # runs[2].cout
  /\ runs[1].board # runs[1].atCall

C8_CandidatesIffBlank ==
  \A k \in DOMAIN stack :
    stack[k].pc # "constructed"
      => \A row \in Idx, col \in Idx :
           (stack[k].self.possibilities[row][col] # nullptr)
             <=> (stack[k].self.board[row][col] = 0)

----------------------------------------------------------------------------
(* Properties of the unit checks                                           *)

\* The 27 units in the order rows 0..8, columns 0..8, boxes in row-major
\* order, each named by its first cell.
UnitOrder ==
  [k \in 1 .. 27 |->
     IF k <= 9 THEN <<"row", k - 1, 0>>
     ELSE IF k <= 18 THEN <<"col", 0, k - 10>>
     ELSE <<"Submatrix", 3 * ((k - 19) \div 3), 3 * ((k - 19) % 3)>>]

UnitCells(u) ==
  IF u[1] = "row" THEN {cell \in Cells : cell[1] = u[2]}
  ELSE IF u[1] = "col" THEN {cell \in Cells : cell[2] = u[3]}
  ELSE {cell \in Cells : cell[1] \in u[2] .. (u[2] + 2) /\ cell[2] \in u[3] .. (u[3] + 2)}

\* The non-zero values held by two cells of the unit.
Repeats(grid, u) ==
  {v \in Digits : \E a \in UnitCells(u), b \in UnitCells(u) :
                    a # b /\ grid[a[1]][a[2]] = v /\ grid[b[1]][b[2]] = v}

\* C4: isSolutionValid() returns true exactly when no non-zero digit occurs
\* twice in a row, a column or a box; blanks never count as duplicates.
C4_ValidIffNoDuplicate ==
  last.op = "isSolutionValid" => (last.ret <=> NoDuplicate(stack[1].self.board))

C4_Witness ==
  /\ last.op = "isSolutionValid"
  /\ last.ret
  /\ \E row \in Idx, c1 \in Idx, c2 \in Idx :
       /\ c1 # c2
       /\ stack[1].self.board[row][c1] = 0
       /\ stack[1].self.board[row][c2] = 0

\* C5: the units are checked in the order rows 0..8, columns 0..8, boxes;
\* every unit reported before the last is duplicate-free, and a false
\* result ends at the first unit with a duplicate, reporting a value that
\* is repeated in it.
C5_FirstFailingUnit ==
  (last.op = "isSolutionValid" /\ last.args[1])
    => LET out  == last.out
           n    == Len(out)
           grid == stack[1].self.board
       IN  /\ n \in 1 .. 27
           /\ \A k \in 1 .. n : <<out[k][1], out[k][2], out[k][3]>> = UnitOrder[k]
           /\ \A k \in 1 .. (n - 1) :
                out[k][4] = "OK" /\ Repeats(grid, UnitOrder[k]) = {}
           /\ IF last.ret
              THEN n = 27 /\ out[n][4] = "OK" /\ Repeats(grid, UnitOrder[n]) = {}
              ELSE out[n][4] = "repeat" /\ out[n][5] \in Repeats(grid, UnitOrder[n])

C5_Witness ==
  /\ last.op = "isSolutionValid"
  /\ last.args[1]
  /\ stack[1].self.board = puzzle1
  /\ ~last.ret
  /\ Len(last.out) = 19
  /\ last.out[19] = <<"Submatrix", 0, 0, "repeat", 2>>

\* The other cells of the row, the column and the box of (row, col) hold no
\* repeated non-zero value within any one of these three units.
OthersDuplicateFree(grid, row, col) ==
  \A a \in Cells, b \in Cells :
    ( /\ a # b /\ a # <<row, col>> /\ b # <<row, col>>
      /\ \/ a[1] = row /\ b[1] = row
         \/ a[2] = col /\ b[2] = col
         \/ /\ a[1] \div 3 = row \div 3 /\ a[2] \div 3 = col \div 3
            /\ b[1] \div 3 = row \div 3 /\ b[2] \div 3 = col \div 3
      /\ grid[a[1]][a[2]] # 0 )
    => grid[a[1]][a[2]] # grid[b[1]][b[2]]

\* C9 (as claimed): on a blank cell wouldWork(v, row, col) is true exactly
\* when v occurs in no other cell of the row, column and box, whatever
\* duplicates those other cells hold.
C9_WouldWorkIffAbsent ==
  last.op = "wouldWork"
    => (last.ret <=> Absent(stack[1].self.board, last.args[1], last.args[2], last.args[3]))

\* C9 (amended): on a blank cell wouldWork(v, row, col) is true exactly when
\* v occurs in no other cell of the row, column and box and those other
\* cells hold no duplicate within the row, the column or the box; the grid
\* is left as it was.
C9_WouldWorkIffCleanPlacement ==
  last.op = "wouldWork"
    => /\ last.ret <=>
            /\ Absent(stack[1].self.board, last.args[1], last.args[2], last.args[3])
            /\ OthersDuplicateFree(stack[1].self.board, last.args[2], last.args[3])
       /\ stack[1].self.board = input

C9_Witness ==
  /\ last.op = "wouldWork"
  /\ ~last.ret
  /\ Absent(stack[1].self.board, last.args[1], last.args[2], last.args[3])
  /\ ~OthersDuplicateFree(stack[1].self.board, last.args[2], last.args[3])

\* C10: isSolutionOk() returns true exactly when every cell holds a value of
\* 1..9 and no row, column or box holds a value twice.
C10_CompleteValidity ==
  vlast.op = "isSolutionOk"
    => (vlast.ret <=> /\ \A row \in Idx, col \in Idx : puzzle[row][col] \in 1 .. 9
                      /\ NoDuplicate(puzzle))

C10_Witness ==
  /\ vlast.op = "isSolutionOk"
  /\ puzzle = puzzle1
  /\ ~vlast.ret
  /\ Len(vlast.out) = 19
  /\ vlast.out[19] = <<"Submatrix", 0, 0, "repeat", 2>>

----------------------------------------------------------------------------
(* Properties of the search                                                *)

\* C11 (as claimed): an invocation of solve() is in its search only after at
\* least two passes, the last of which left at least one blank cell and as
\* many blank cells as the pass before it: never after a pass that assigned
\* a cell, never on the first pass.
C11_BranchOnlyAfterStall ==
  \A k \in DOMAIN stack :
    stack[k].pc \in {"search", "call"}
      => LET b == stack[k].blanks
             n == Len(b)
         IN  n >= 3 /\ b[n] = b[n - 1] /\ b[n] >= 1

\* C12: whenever an invocation of solve() is in its search, (minRow, minCol)
\* is a blank cell with a candidate set of minPossibilities values, no blank
\* cell has a smaller candidate set, and no blank cell with a set of the
\* same size comes before it in row-major order.
C12_PivotIsFirstSmallest ==
  \A k \in DOMAIN stack :
    stack[k].pc \in {"search", "call"}
      => LET self == stack[k].self
             size(cell) == Cardinality(Deref(self.possibilities[cell[1]][cell[2]]))
             pivot == <<self.minRow, self.minCol>>
         IN  /\ pivot \in Cells
             /\ self.board[pivot[1]][pivot[2]] = 0
             /\ self.possibilities[pivot[1]][pivot[2]] # nullptr
             /\ self.minPossibilities = size(pivot)
             /\ \A cell \in Cells :
                  self.board[cell[1]][cell[2]] = 0
                    => /\ self.possibilities[cell[1]][cell[2]] # nullptr
                       /\ size(cell) >= size(pivot)
                       /\ size(cell) = size(pivot)
                            => Dim * cell[1] + cell[2] >= Dim * pivot[1] + pivot[2]

\* A search entered after a stalled pass, whose pivot is tied with a later
\* blank cell while another blank cell has more candidates.
C12_Witness ==
  \E k \in DOMAIN stack :
    /\ stack[k].pc = "search"
    /\ Len(stack[k].blanks) >= 3
    /\ LET self == stack[k].self
           size(cell) == Cardinality(Deref(self.possibilities[cell[1]][cell[2]]))
           pivot == <<self.minRow, self.minCol>>
           blank == {cell \in Cells : self.board[cell[1]][cell[2]] = 0}
       IN  /\ \E cell \in blank : cell # pivot /\ size(cell) = size(pivot)
           /\ \E cell \in blank : size(cell) > size(pivot)

\* The candidate set of the pivot cell of an object.
PivotCandidates(self) == Deref(self.possibilities[self.minRow][self.minCol])

Least(S) == CHOOSE v \in S : \A w \in S : v <= w

\* C13: the search starts with the smallest candidate of the pivot; each
\* sub-puzzle is built from a copy of the parent's current grid with the
\* pivot set to the candidate, the parent's grid untouched; when a
\* sub-puzzle returns true the parent's grid becomes equal to the
\* sub-puzzle's grid and the parent returns true; when it returns false
\* the parent, its grid unchanged, goes on with the next larger candidate
\* and returns false when there is none.
C13_AscendingFirstSuccess ==
  [][LET n      == Len(stack)
         parent == stack[n - 1]
         after  == stack'[n - 1]
         larger == {v \in PivotCandidates(parent.self) : v > parent.it}
     IN  /\ (Len(stack') = n /\ stack[n].pc = "loop" /\ stack'[n].pc = "search")
              => stack'[n].it = Least(PivotCandidates(stack'[n].self))
         /\ Len(stack') = n + 1
              => /\ stack[n].pc = "search"
                 /\ stack[n].it \in PivotCandidates(stack[n].self)
                 /\ stack'[n].self = stack[n].self
                 /\ stack'[n].it = stack[n].it
                 /\ stack'[n + 1].atCall =
                      [stack[n].self.board EXCEPT
                         ![stack[n].self.minRow][stack[n].self.minCol] = stack[n].it]
                 /\ stack'[n + 1].self.board = stack'[n + 1].atCall
         /\ Len(stack') = n - 1
              => IF stack[n].ret
                 THEN /\ after.pc = "returned" /\ after.ret
                      /\ after.self.board = stack[n].self.board
                 ELSE IF larger # {}
                 THEN /\ after.pc = "search" /\ after.it = Least(larger)
                      /\ after.self.board = parent.self.board
                 ELSE /\ after.pc = "returned" /\ ~after.ret
                      /\ after.self.board = parent.self.board]_vars

\* A sub-puzzle has returned true for a candidate that is not the smallest
\* of the pivot: the sub-puzzle of a smaller one failed before it.
C13_Witness ==
  /\ Len(stack) >= 2
  /\ Top.pc = "returned"
  /\ Top.ret
  /\ \E v \in PivotCandidates(stack[Len(stack) - 1].self) :
       v < stack[Len(stack) - 1].it

\* solve() has returned false at the top level after the sub-puzzle of
\* every candidate of its pivot failed.
C13_Exhausted ==
  /\ Len(stack) = 1
  /\ stack[1].pc = "returned"
  /\ ~stack[1].ret
  /\ Len(stack[1].blanks) >= 3
  /\ stack[1].it = CHOOSE v \in PivotCandidates(stack[1].self) :
                     \A w \in PivotCandidates(stack[1].self) : w <= v

----------------------------------------------------------------------------
(* Termination                                                             *)

\* C14 (as claimed): in every invocation each pass that does not end the
\* while loop strictly lowers the number of blank cells, every sub-puzzle
\* starts with strictly fewer blank cells than its parent had at its call,
\* and the number of nested sub-puzzle invocations never exceeds the number
\* of blank cells of the input grid.
C14_EveryPassLowersBlanks ==
  /\ \A k \in DOMAIN stack :
       stack[k].pc = "loop"
         => \A i \in 2 .. Len(stack[k].blanks) :
              stack[k].blanks[i] < stack[k].blanks[i - 1]
  /\ \A k \in 2 .. Len(stack) : stack[k].blanks[1] < stack[k - 1].blanks[1]
  /\ Len(stack) - 1 <= blankCells(stack[1].atCall)

\* The rank of one invocation: the passes its while loop may still make,
\* then the candidates of the pivot that are still to be decided.
FrameRank(frame) ==
  LET left == Cardinality({v \in PivotCandidates(frame.self) : v >= frame.it})
  IN  CASE frame.pc = "loop"   -> 100 + (frame.blanks[1] + 2 - Len(frame.blanks))
        [] frame.pc = "search" -> 2 * left + 1
        [] frame.pc = "call"   -> 2 * left
        [] OTHER               -> 0

\* The ranks of the invocations of t are below those of s in the
\* lexicographic order, outermost invocation first.
RankBelow(t, s) ==
  \E k \in 1 .. Len(s) :
    /\ k <= Len(t)
    /\ \A j \in 1 .. (k - 1) : FrameRank(t[j]) = FrameRank(s[j])
    /\ FrameRank(t[k]) < FrameRank(s[k])

\* C14 (amended): every solve() call returns: while a call is in progress
\* its innermost invocation can always take a step, and every step lowers
\* the rank of the call stack, a sequence of at most 82 bounded naturals.
\* In every invocation the first pass does not raise the number of blank
\* cells and every later pass that does not end the while loop strictly
\* lowers it, so an invocation makes at most two passes more than it had
\* blank cells; every sub-puzzle starts with strictly fewer blank cells
\* than its parent had at its call; and the number of nested sub-puzzle
\* invocations never exceeds the number of blank cells of the input grid.
C14_Terminates ==
  /\ [][(stack[1].pc \in {"loop", "search", "call"} /\ stack' # stack)
          => RankBelow(stack', stack)]_vars
  /\ [](/\ stack[1].pc \in {"loop", "search", "call"}
             => \/ Top.pc \in {"loop", "search"}
                \/ Top.pc = "returned" /\ Len(stack) > 1
        /\ \A k \in DOMAIN stack :
             LET b == stack[k].blanks
             IN  /\ \A i \in 2 .. Len(b) : b[i] <= b[i - 1]
                 /\ \A i \in 3 .. Len(b) :
                      (i < Len(b) \/ stack[k].pc = "loop") => b[i] < b[i - 1]
                 /\ Len(b) <= b[1] + 2
        /\ \A k \in 2 .. Len(stack) : stack[k].blanks[1] < stack[k - 1].blanks[1]
        /\ Len(stack) - 1 <= blankCells(stack[1].atCall))

\* A top-level call has returned after a first pass that assigned nothing
\* and did not end the loop, a second pass, and a search.
C14_Witness ==
  /\ Len(stack) = 1
  /\ stack[1].pc = "returned"
  /\ stack[1].it # 0
  /\ Len(stack[1].blanks) >= 3
  /\ stack[1].blanks[2] = stack[1].blanks[1]

----------------------------------------------------------------------------
(* Frame properties of solve()                                             *)

\* Every cell that is non-zero in grid g holds the same value in grid h.
KeepsClues(g, h) ==
  \A cell \in Cells :
    g[cell[1]][cell[2]] # 0 => h[cell[1]][cell[2]] = g[cell[1]][cell[2]]

\* C15: at every step of every invocation of solve(), top-level or
\* sub-puzzle, and when a top-level call has returned true or false, every
\* cell that was non-zero when the invocation was called holds the same
\* value.
C15_CluesKept ==
  /\ \A k \in DOMAIN stack : KeepsClues(stack[k].atCall, stack[k].self.board)
  /\ \A i \in DOMAIN runs : KeepsClues(runs[i].atCall, runs[i].board)

\* A top-level call on a grid with clues has returned true after
\* propagation, a search and the adoption of a sub-puzzle's values.
C15_Witness ==
  /\ Len(stack) = 1
  /\ stack[1].pc = "returned"
  /\ stack[1].ret
  /\ stack[1].it # 0
  /\ stack[1].self.board # stack[1].atCall
  /\ blankCells(stack[1].atCall) < Dim * Dim

\* C16 (as claimed): if the caller's grid had no duplicate non-zero digit in
\* a row, column or box when solve() was called, it has none after any
\* propagation pass nor when solve() has returned, true or false.
C16_ValidityPreserved ==
  /\ NoDuplicate(stack[1].atCall) => NoDuplicate(stack[1].self.board)
  /\ \A i \in DOMAIN runs :
       NoDuplicate(runs[i].atCall) => NoDuplicate(runs[i].board)

====
